---- MODULE Spec2Model ----
(***************************************************************************)
(* State-machine model of the command-line programs of the repository:     *)
(*   src/scripts/train_conditional_gan.py  main()  (training entry point)  *)
(*   src/scripts/generate_art.py           main()  (generation-only)       *)
(*   src/scripts/generate_variations.py    main()  (fast variations)       *)
(*   backend/main.py                       POST /generate                  *)
(* The file system persists across runs; the locals of a process exist     *)
(* only while that process is the current command of the session.          *)
(* Rational numbers are kept exact: lambda_style is stored in halves       *)
(* (8.0 is 16), a ratio max/min as the pair [num, den].                    *)
(***************************************************************************)
EXTENDS Integers, Sequences, FiniteSets, TLC

\* ---------------------------------------------------------------- bounds
MaxRuns == 2          \* training runs in one session
MaxEpochs == 2        \* largest --num_epochs tried
MaxCkptEpoch == 1     \* largest epoch index recorded in a pre-existing checkpoint
MaxStyles == 2        \* largest --num_styles tried
MaxVariations == 2    \* largest --num_variations tried

\* ------------------------------------------------------ program constants
ImbalanceThreshold == 5   \* "if imbalance_ratio > 5"
ScaleNum == 3             \* lambda_style * 1.5, as the fraction 3/2
ScaleDen == 2
MinStyle == 0             \* "if args.style < 0 or args.style > 14"
MaxStyle == 14

\* --lambda_style values tried, in halves: 2.0 and the default 8.0
LambdaArgs == {4, 16}

\* ---------------------------------------------------------------- values
NoCkpt == [kind |-> "absent", epoch |-> 0, run |-> 0]
NoConfig == [present |-> FALSE, run |-> 0, lambda_style |-> 0, start_epoch |-> 0,
             num_epochs |-> 0, resume |-> "none", device |-> "none", num_styles |-> 0,
             dataset_size |-> 0]
NoTrainer == [built |-> FALSE, weights |-> "none", lambda_style |-> 0, epoch |-> 0,
              device |-> "none", num_styles |-> 0]
NoArgs == [resume |-> "none", lambda_style |-> 0, num_epochs |-> 0, device |-> "none",
           num_styles |-> 0]
NoRatio == [num |-> 0, den |-> 1]
NoStats == [present |-> FALSE, counts |-> <<>>]

Range(s) == {s[i] : i \in DOMAIN s}

\* The per-style counts of the statistics files tried (main() reads only
\* cluster_stats.values()): no style, a style of count 0, and ratios of
\* 1, 2, exactly 5, just above 5, and 10.
StatsCounts ==
  {<<>>, <<0, 10>>, <<50, 50, 50>>, <<50, 100>>, <<10, 50>>, <<10, 51>>, <<10, 10, 100>>}
StatsFiles == {NoStats} \cup {[present |-> TRUE, counts |-> c] : c \in StatsCounts}

\* Entries of the dataset directory, a name as <<stem, suffix, ...>>:
\* a.jpg, b.jpg, c.png, d.jpg.bak, e.JPG; and the directory listings tried
FileA == <<"a", ".jpg">>
FileB == <<"b", ".jpg">>
FileC == <<"c", ".png">>
FileD == <<"d", ".jpg", ".bak">>
FileE == <<"e", ".JPG">>
DefaultListing == {FileA, FileC}
Listings == {{}, {FileC}, {FileA, FileC}, {FileA, FileD, FileE}, {FileA, FileB, FileC}}

\* f.endswith('.jpg')
EndsWithJpg(f) == f[Len(f)] = ".jpg"

\* image_files = [f for f in os.listdir(data_dir) if f.endswith('.jpg')]
ImageFiles(listing) == {f \in listing : EndsWithJpg(f)}

\* MockMappings with random.randint(0, num_styles): the upper end included
MockMappings_Inclusive(listing, num_styles) == [ImageFiles(listing) -> 0..num_styles]

\* the mappings create_mock_cluster_mapping can return: every image file gets
\* random.randint(0, num_styles - 1)
MockMappings(listing, num_styles) == [ImageFiles(listing) -> 0..(num_styles - 1)]

\* the mapping written by the clustering step for this dataset
RealMapping(listing) == [f \in ImageFiles(listing) |-> 0]

\* --device with torch.cuda.is_available(), and the device main() resolves
DeviceCases == {<<"auto", TRUE>>, <<"auto", FALSE>>, <<"cpu", TRUE>>, <<"cuda", TRUE>>}
ResolveDevice(d, cuda) == IF d = "auto" THEN (IF cuda THEN "cuda" ELSE "cpu") ELSE d

CkptFiles ==
  {NoCkpt, [kind |-> "malformed", epoch |-> 0, run |-> 0]} \cup
  {[kind |-> "valid", epoch |-> e, run |-> 0] : e \in 0..MaxCkptEpoch}

VARIABLES
  \* file system
  dataDirExists,   \* os.path.exists(data_dir)
  dataFiles,       \* os.listdir(data_dir)
  mappingFile,     \* cluster mapping file: "absent", "real" or "mock" (who wrote it)
  mappingContent,  \* its content: file name -> style id
  statsFile,       \* clustering_results/cluster_stats.json
  saveDirExists,   \* os.path.exists(save_dir)
  sdCkpt,          \* the checkpoint file inside save_dir
  sdConfig,        \* save_dir/training_config.json
  extCkpt,         \* a checkpoint file outside save_dir
  \* the training process
  runNo, pc, args, cmdLambda, loaderCreated, imbalance_ratio, trainer,
  start_epoch, log, exitStatus, epochsRun, resumeExistedAtStart,
  device,          \* the resolved torch.device
  dataset_size,    \* len(dataset)
  configWrites,    \* how often this run has written training_config.json
  \* the generate_art process
  gaPc, gaModel, gaGenerator, gaAttempts, gaLog, gaExit, gaImages,
  \* the generate_variations process
  gvPc,
  gvCaller,        \* "cli", or "api" when started by POST /generate
  gvCmd,           \* the command line: option strings and the values they carry
  gvArgs,          \* the parsed arguments
  gvI,             \* the loop index i
  gvSeeds,         \* the seed argument of each generate_style_variation call
  gvStdout,        \* the lines printed on stdout
  gvStderr,        \* what was printed on stderr
  gvSaved,         \* the files saved by this run
  gvOutDir,        \* os.path.exists(args.output_dir)
  gvMappingReads,  \* calls of load_cluster_mapping
  gvExit,
  \* the POST /generate handler
  bePc, beReq, beResponse

fsVars == <<dataDirExists, dataFiles, mappingFile, mappingContent, statsFile, saveDirExists,
            sdCkpt, sdConfig, extCkpt>>
trainVars == <<runNo, pc, args, cmdLambda, loaderCreated, imbalance_ratio, trainer,
               start_epoch, log, exitStatus, epochsRun, resumeExistedAtStart,
               device, dataset_size, configWrites>>
gaVars == <<gaPc, gaModel, gaGenerator, gaAttempts, gaLog, gaExit, gaImages>>
gvVars == <<gvPc, gvCaller, gvCmd, gvArgs, gvI, gvSeeds, gvStdout, gvStderr, gvSaved,
            gvOutDir, gvMappingReads, gvExit, bePc, beReq, beResponse>>
vars == <<fsVars, trainVars, gaVars, gvVars>>

\* ------------------------------------------------------ pure computations
SeqMin(s) == CHOOSE x \in Range(s) : \A y \in Range(s) : x <= y
SeqMax(s) == CHOOSE x \in Range(s) : \A y \in Range(s) : x >= y

\* imbalance_ratio = max_count / min_count, kept as an exact fraction
ImbalanceRatio(counts) == [num |-> SeqMax(counts), den |-> SeqMin(counts)]

\* imbalance_ratio > 5
IsImbalanced_AtLeast(r) == r.num >= ImbalanceThreshold * r.den

IsImbalanced(r) == r.num > ImbalanceThreshold * r.den

\* args.lambda_style * 1.5 (lambda in halves; the command-line values are whole)
ScaleLambda(l) == (ScaleNum * l) \div ScaleDen

\* StatsRaise where a division by zero gives a value (inf) instead of raising
StatsRaise_OnlyEmpty(counts) == counts = <<>>

\* min()/max() of an empty sequence raise ValueError, x / 0 raises
\* ZeroDivisionError: both are caught by "except Exception"
StatsRaise(counts) == counts = <<>> \/ SeqMin(counts) = 0

\* the file os.path.exists(args.resume) looks at
ResumeFile(r) == IF r = "inside" THEN sdCkpt ELSE IF r = "outside" THEN extCkpt ELSE NoCkpt
ResumeExists(r) ==
  /\ r # "none"
  /\ ResumeFile(r).kind # "absent"
  /\ (r = "inside" => saveDirExists)

\* ------------------------------------------------------------------ Init
TrainIdle ==
  /\ pc = "idle" /\ args = NoArgs /\ cmdLambda = 0 /\ loaderCreated = FALSE
  /\ imbalance_ratio = NoRatio /\ trainer = NoTrainer /\ start_epoch = 0
  /\ log = {} /\ exitStatus = -1 /\ epochsRun = <<>> /\ resumeExistedAtStart = FALSE
  /\ device = "none" /\ dataset_size = 0 /\ configWrites = 0

NoSeed == [given |-> FALSE, value |-> 0]
OutputDirs == {"art_variations", "generated_api"}
NoOutDirs == [d \in OutputDirs |-> FALSE]
NoCmd == [opts |-> <<>>, style |-> 0, num_variations |-> 0, seed |-> NoSeed,
          output_dir |-> "none"]
NoGvArgs == [style |-> 0, num_variations |-> 0, seed |-> NoSeed, output_dir |-> "none"]
NoReq == [style |-> 0, num_variations |-> 0, seed |-> NoSeed]
NoResponse == [status |-> 0, images |-> <<>>, error |-> "none"]

GvIdle ==
  /\ gvPc = "idle" /\ gvCaller = "none" /\ gvCmd = NoCmd /\ gvArgs = NoGvArgs /\ gvI = 0
  /\ gvSeeds = <<>> /\ gvStdout = <<>> /\ gvStderr = "none" /\ gvSaved = {}
  /\ gvMappingReads = 0 /\ gvExit = -1
  /\ bePc = "idle" /\ beReq = NoReq /\ beResponse = NoResponse

GaIdle ==
  /\ gaPc = "idle" /\ gaModel = "none" /\ gaGenerator = "none" /\ gaLog = {}
  /\ gaExit = -1 /\ gaImages = FALSE /\ gaAttempts = <<>>

Init ==
  /\ dataDirExists \in BOOLEAN
  /\ dataFiles = (IF dataDirExists THEN DefaultListing ELSE {})
  /\ mappingFile \in {"absent", "real"}
  /\ mappingContent = (IF mappingFile = "real" THEN RealMapping(dataFiles) ELSE <<>>)
  /\ statsFile \in StatsFiles
  /\ saveDirExists \in BOOLEAN
  /\ sdCkpt \in (IF saveDirExists THEN CkptFiles ELSE {NoCkpt})
  /\ sdConfig \in (IF saveDirExists THEN {NoConfig, [NoConfig EXCEPT !.present = TRUE]}
                                    ELSE {NoConfig})
  /\ extCkpt \in CkptFiles
  /\ runNo = 0
  /\ TrainIdle
  /\ GaIdle
  /\ GvIdle /\ gvOutDir = NoOutDirs


\* ------------------------------------------- the training process: main()
AtRest ==
  /\ pc \in {"idle", "done", "exited", "crashed"}
  /\ gaPc \in {"idle", "done", "exited"}
  /\ gvPc \in {"idle", "done", "exited"}
  /\ bePc \in {"idle", "responded"}

GaReset ==
  /\ gaPc' = "idle" /\ gaModel' = "none" /\ gaGenerator' = "none" /\ gaLog' = {}
  /\ gaExit' = -1 /\ gaImages' = FALSE /\ gaAttempts' = <<>>

TrainReset ==
  /\ pc' = "idle" /\ args' = NoArgs /\ cmdLambda' = 0 /\ loaderCreated' = FALSE
  /\ imbalance_ratio' = NoRatio /\ trainer' = NoTrainer /\ start_epoch' = 0
  /\ log' = {} /\ exitStatus' = -1 /\ epochsRun' = <<>> /\ resumeExistedAtStart' = FALSE
  /\ device' = "none" /\ dataset_size' = 0 /\ configWrites' = 0

\* parse_args() and the start of main() up to the device setup: a new process
\* with fresh locals. R, L, N, D, S: the values of --resume, --lambda_style,
\* --num_epochs, --device (with torch.cuda.is_available()) and --num_styles tried
StartTrainWith(R, L, N, D, S) ==
  /\ AtRest
  /\ runNo < MaxRuns
  /\ \E r \in R, l \in L, n \in N, d \in D, k \in S :
       /\ args' = [resume |-> r, lambda_style |-> l, num_epochs |-> n, device |-> d[1],
                   num_styles |-> k]
       /\ cmdLambda' = l
       /\ resumeExistedAtStart' = ResumeExists(r)
       /\ device' = ResolveDevice(d[1], d[2])
  /\ runNo' = runNo + 1
  /\ pc' = "check_data"
  /\ loaderCreated' = FALSE /\ imbalance_ratio' = NoRatio /\ trainer' = NoTrainer
  /\ start_epoch' = 0 /\ log' = {} /\ exitStatus' = -1 /\ epochsRun' = <<>>
  /\ dataset_size' = 0 /\ configWrites' = 0
  /\ GaReset
  /\ UNCHANGED <<fsVars, gvVars>>

\* a run on the default device with one style, any --resume and --lambda_style
StartTrain ==
  StartTrainWith({"none", "inside", "outside"}, LambdaArgs, 1..MaxEpochs,
                 {<<"auto", FALSE>>}, {1})

\* a run with any --device and --num_styles
StartTrainSetup ==
  StartTrainWith({"none", "outside"}, {16}, {1}, DeviceCases, 1..MaxStyles)

\* CheckDataDir with the sys.exit(1) forgotten: the error is printed and main() goes on
CheckDataDir_NoExit ==
  /\ pc = "check_data"
  /\ pc' = "mapping"
  /\ log' = IF dataDirExists THEN log ELSE log \cup {"error_dataset_not_found"}
  /\ UNCHANGED <<fsVars, gaVars, gvVars, device, dataset_size, configWrites,
                 runNo, args, cmdLambda, loaderCreated, imbalance_ratio,
                 trainer, start_epoch, exitStatus, epochsRun, resumeExistedAtStart>>

\* "if not os.path.exists(data_dir): print(Error...); sys.exit(1)"
CheckDataDir ==
  /\ pc = "check_data"
  /\ IF dataDirExists
       THEN /\ pc' = "mapping"
            /\ UNCHANGED <<log, exitStatus>>
       ELSE /\ pc' = "exited"
            /\ exitStatus' = 1
            /\ log' = log \cup {"error_dataset_not_found"}
  /\ UNCHANGED <<fsVars, gaVars, gvVars, device, dataset_size, configWrites,
                 runNo, args, cmdLambda, loaderCreated, imbalance_ratio,
                 trainer, start_epoch, epochsRun, resumeExistedAtStart>>

\* "if not os.path.exists(cluster_mapping_path)": synthesise a mapping with
\* create_mock_cluster_mapping(data_dir, args.num_styles) and save it
HandleClusterMapping ==
  /\ pc = "mapping"
  /\ IF mappingFile = "absent"
       THEN /\ mappingFile' = "mock"
            /\ mappingContent' \in MockMappings(dataFiles, args.num_styles)
            /\ log' = log \cup {"warning_mapping_not_found", "mock_mapping_saved"}
       ELSE UNCHANGED <<mappingFile, mappingContent, log>>
  /\ pc' = "loader"
  /\ UNCHANGED <<dataDirExists, dataFiles, statsFile, saveDirExists, sdCkpt, sdConfig, extCkpt,
                 gaVars, gvVars, device, dataset_size, configWrites,
                 runNo, args, cmdLambda, loaderCreated, imbalance_ratio, trainer,
                 start_epoch, exitStatus, epochsRun, resumeExistedAtStart>>

\* len(dataset): the images the mapping lists that are in the dataset directory
DatasetSize(listing, mapping) == Cardinality({f \in DOMAIN mapping : f \in listing})

\* try: create_conditional_dataloader(...) except Exception: print; sys.exit(1)
CreateDataLoader ==
  /\ pc = "loader"
  /\ \E ok \in BOOLEAN :
       IF ok
         THEN /\ loaderCreated' = TRUE
              /\ dataset_size' = DatasetSize(dataFiles, mappingContent)
              /\ pc' = "analyze"
              /\ log' = log \cup {"data_loader_created"}
              /\ UNCHANGED exitStatus
         ELSE /\ pc' = "exited"
              /\ exitStatus' = 1
              /\ log' = log \cup {"error_creating_data_loader"}
              /\ UNCHANGED <<loaderCreated, dataset_size>>
  /\ UNCHANGED <<fsVars, gaVars, gvVars, device, configWrites,
                 runNo, args, cmdLambda, imbalance_ratio, trainer,
                 start_epoch, epochsRun, resumeExistedAtStart>>

\* what the cluster analysis does with the statistics file: skipped when the
\* file is absent ("if os.path.exists(cluster_stats_path)"), an exception when
\* the ratio cannot be computed, else the analysis
AnalysisOutcome_NoExistsCheck(sf) ==
  IF StatsRaise(sf.counts) THEN "raised" ELSE "analysed"

AnalysisOutcome(sf) ==
  IF ~sf.present THEN "skipped"
  ELSE IF StatsRaise(sf.counts) THEN "raised" ELSE "analysed"

\* the rest of the try block: cluster analysis and lambda_style adaptation
AnalyzeClusters ==
  /\ pc = "analyze"
  /\ IF AnalysisOutcome(statsFile) = "skipped"
       THEN /\ pc' = "clear"
            /\ UNCHANGED <<args, imbalance_ratio, log, exitStatus>>
       ELSE IF AnalysisOutcome(statsFile) = "raised"
         THEN /\ pc' = "exited"
              /\ exitStatus' = 1
              /\ log' = log \cup {"error_creating_data_loader"}
              /\ UNCHANGED <<args, imbalance_ratio>>
         ELSE LET r == ImbalanceRatio(statsFile.counts) IN
              /\ imbalance_ratio' = r
              /\ IF IsImbalanced(r)
                   THEN /\ args' = [args EXCEPT !.lambda_style = ScaleLambda(args.lambda_style)]
                        /\ log' = log \cup {"cluster_analysis", "increased_style_loss"}
                   ELSE /\ log' = log \cup {"cluster_analysis"}
                        /\ UNCHANGED args
              /\ pc' = "clear"
              /\ UNCHANGED exitStatus
  /\ UNCHANGED <<fsVars, gaVars, gvVars, device, dataset_size, configWrites,
                 runNo, cmdLambda, loaderCreated, trainer,
                 start_epoch, epochsRun, resumeExistedAtStart>>

\* ClearSaveDir without the rmtree: an existing save directory is kept
ClearSaveDir_Keep ==
  /\ pc = "clear"
  /\ pc' = "init_trainer"
  /\ UNCHANGED <<fsVars, gaVars, gvVars, device, dataset_size, configWrites,
                 runNo, args, cmdLambda, loaderCreated, imbalance_ratio,
                 trainer, start_epoch, log, exitStatus, epochsRun, resumeExistedAtStart>>

\* "if os.path.exists(save_dir): shutil.rmtree(save_dir)"
ClearSaveDir ==
  /\ pc = "clear"
  /\ IF saveDirExists
       THEN /\ saveDirExists' = FALSE
            /\ sdCkpt' = NoCkpt
            /\ sdConfig' = NoConfig
            /\ log' = log \cup {"clearing_training_dir"}
       ELSE UNCHANGED <<saveDirExists, sdCkpt, sdConfig, log>>
  /\ pc' = "init_trainer"
  /\ UNCHANGED <<dataDirExists, dataFiles, mappingFile, mappingContent, statsFile, extCkpt,
                 gaVars, gvVars, device, dataset_size, configWrites,
                 runNo, args, cmdLambda, loaderCreated, imbalance_ratio, trainer,
                 start_epoch, exitStatus, epochsRun, resumeExistedAtStart>>

\* trainer = ConditionalGANTrainer(..., lambda_style=args.lambda_style, ...)
InitTrainer ==
  /\ pc = "init_trainer"
  /\ trainer' = [built |-> TRUE, weights |-> "fresh",
                 lambda_style |-> args.lambda_style, epoch |-> 0,
                 device |-> device, num_styles |-> args.num_styles]
  /\ log' = log \cup {"initializing_trainer"}
  /\ pc' = "resume"
  /\ UNCHANGED <<fsVars, gaVars, gvVars, device, dataset_size, configWrites,
                 runNo, args, cmdLambda, loaderCreated, imbalance_ratio,
                 start_epoch, exitStatus, epochsRun, resumeExistedAtStart>>

\* trainer.load_checkpoint(path): all-or-nothing; raises on a malformed or
\* incompatible file, else restores the snapshot and returns its epoch index
LoadCheckpointRaises(ck) == ck.kind # "valid"
LoadCheckpoint(t, ck) == [t EXCEPT !.weights = "loaded", !.epoch = ck.epoch]

\* ResumeFromCheckpoint where a missing checkpoint is fatal
ResumeFromCheckpoint_AbortIfMissing ==
  /\ pc = "resume"
  /\ IF args.resume = "none"
       THEN /\ pc' = "config"
            /\ UNCHANGED <<trainer, start_epoch, log, exitStatus>>
       ELSE IF ResumeExists(args.resume) /\ ~LoadCheckpointRaises(ResumeFile(args.resume))
         THEN /\ trainer' = LoadCheckpoint(trainer, ResumeFile(args.resume))
              /\ start_epoch' = ResumeFile(args.resume).epoch
              /\ log' = log \cup {"resumed"}
              /\ pc' = "config"
              /\ UNCHANGED exitStatus
         ELSE /\ pc' = "crashed"
              /\ exitStatus' = 1
              /\ log' = log \cup {"traceback"}
              /\ UNCHANGED <<trainer, start_epoch>>
  /\ UNCHANGED <<fsVars, gaVars, gvVars, device, dataset_size, configWrites,
                 runNo, args, cmdLambda, loaderCreated, imbalance_ratio,
                 epochsRun, resumeExistedAtStart>>

\* "start_epoch = 0; if args.resume: if os.path.exists(args.resume): ... else: warn"
ResumeFromCheckpoint ==
  /\ pc = "resume"
  /\ IF args.resume = "none"
       THEN /\ pc' = "config"
            /\ UNCHANGED <<trainer, start_epoch, log, exitStatus>>
       ELSE IF ResumeExists(args.resume)
         THEN IF LoadCheckpointRaises(ResumeFile(args.resume))
                THEN \* uncaught exception: traceback, exit status 1
                     /\ pc' = "crashed"
                     /\ exitStatus' = 1
                     /\ log' = log \cup {"traceback"}
                     /\ UNCHANGED <<trainer, start_epoch>>
                ELSE /\ trainer' = LoadCheckpoint(trainer, ResumeFile(args.resume))
                     /\ start_epoch' = ResumeFile(args.resume).epoch
                     /\ log' = log \cup {"resumed"}
                     /\ pc' = "config"
                     /\ UNCHANGED exitStatus
         ELSE /\ log' = log \cup {"warning_checkpoint_not_found"}
              /\ pc' = "config"
              /\ UNCHANGED <<trainer, start_epoch, exitStatus>>
  /\ UNCHANGED <<fsVars, gaVars, gvVars, device, dataset_size, configWrites,
                 runNo, args, cmdLambda, loaderCreated, imbalance_ratio,
                 epochsRun, resumeExistedAtStart>>

\* SaveConfig without "config['device'] = str(device)": the record keeps args.device
SaveConfig_RawDevice ==
  /\ pc = "config"
  /\ saveDirExists' = TRUE
  /\ sdConfig' = [present |-> TRUE, run |-> runNo, lambda_style |-> args.lambda_style,
                  start_epoch |-> start_epoch, num_epochs |-> args.num_epochs,
                  resume |-> args.resume, device |-> args.device,
                  num_styles |-> args.num_styles, dataset_size |-> dataset_size]
  /\ configWrites' = configWrites + 1
  /\ log' = log \cup {"config_saved", "starting_training"}
  /\ pc' = "train"
  /\ UNCHANGED <<dataDirExists, dataFiles, mappingFile, mappingContent, statsFile, sdCkpt,
                 extCkpt, gaVars, gvVars, device, dataset_size,
                 runNo, args, cmdLambda, loaderCreated, imbalance_ratio, trainer,
                 start_epoch, exitStatus, epochsRun, resumeExistedAtStart>>

\* os.makedirs(save_dir, exist_ok=True); json.dump(config, training_config.json)
SaveConfig ==
  /\ pc = "config"
  /\ saveDirExists' = TRUE
  /\ sdConfig' = [present |-> TRUE, run |-> runNo, lambda_style |-> args.lambda_style,
                  start_epoch |-> start_epoch, num_epochs |-> args.num_epochs,
                  resume |-> args.resume, device |-> device,
                  num_styles |-> args.num_styles, dataset_size |-> dataset_size]
  /\ configWrites' = configWrites + 1
  /\ log' = log \cup {"config_saved", "starting_training"}
  /\ pc' = "train"
  /\ UNCHANGED <<dataDirExists, dataFiles, mappingFile, mappingContent, statsFile, sdCkpt,
                 extCkpt, gaVars, gvVars, device, dataset_size,
                 runNo, args, cmdLambda, loaderCreated, imbalance_ratio, trainer,
                 start_epoch, exitStatus, epochsRun, resumeExistedAtStart>>

\* trainer.train(dataloader, num_epochs, save_dir, ...): one TrainingEpoch with
\* its Checkpointing, joined at the trainer's epoch index
TrainEpoch ==
  /\ pc = "train"
  /\ trainer.epoch < args.num_epochs
  /\ epochsRun' = Append(epochsRun, trainer.epoch)
  /\ sdCkpt' = [kind |-> "valid", epoch |-> trainer.epoch, run |-> runNo]
  /\ trainer' = [trainer EXCEPT !.weights = "trained", !.epoch = trainer.epoch + 1]
  /\ UNCHANGED <<dataDirExists, dataFiles, mappingFile, mappingContent, statsFile,
                 saveDirExists, sdConfig, extCkpt,
                 gaVars, gvVars, device, dataset_size, configWrites,
                 runNo, pc, args, cmdLambda, loaderCreated, imbalance_ratio,
                 start_epoch, log, exitStatus, resumeExistedAtStart>>

\* trainer.train returns (Completed); main() returns, exit status 0
TrainComplete ==
  /\ pc = "train"
  /\ trainer.epoch >= args.num_epochs
  /\ pc' = "done"
  /\ exitStatus' = 0
  /\ UNCHANGED <<fsVars, gaVars, gvVars, device, dataset_size, configWrites,
                 runNo, args, cmdLambda, loaderCreated, imbalance_ratio,
                 trainer, start_epoch, log, epochsRun, resumeExistedAtStart>>


\* ---------------------------------------- the generate_art process: main()
\* generator.load_state_dict(torch.load(model_path)) succeeds on a bare
\* generator-weights file only
LoadStateDictOk(m) == m = "bare"
\* generator.load_state_dict(torch.load(model_path)['generator_state_dict'])
LoadFromCheckpointOk_Never(m) == FALSE

LoadFromCheckpointOk(m) == m = "full"

\* parse_args(), device setup and ConditionalGenerator(...) with initial weights
StartArt ==
  /\ AtRest
  /\ \E m \in {"missing", "bare", "full", "garbage"} : gaModel' = m
  /\ gaPc' = "load_state_dict"
  /\ gaGenerator' = "initial"
  /\ gaLog' = {} /\ gaExit' = -1 /\ gaImages' = FALSE /\ gaAttempts' = <<>>
  /\ TrainReset
  /\ UNCHANGED <<fsVars, runNo, gvVars>>

\* GaLoadStateDict that goes on to the second attempt also after a success
GaLoadStateDict_NoShortCircuit ==
  /\ gaPc = "load_state_dict"
  /\ gaAttempts' = Append(gaAttempts, "bare")
  /\ IF LoadStateDictOk(gaModel)
       THEN /\ gaGenerator' = "stored"
            /\ gaLog' = gaLog \cup {"loaded_state_dict"}
       ELSE UNCHANGED <<gaGenerator, gaLog>>
  /\ gaPc' = "load_checkpoint"
  /\ UNCHANGED <<fsVars, trainVars, gvVars, gaModel, gaExit, gaImages>>

\* "try: generator.load_state_dict(torch.load(...)) except: <second attempt>":
\* the first attempt takes the file as a bare generator state dict
GaLoadStateDict ==
  /\ gaPc = "load_state_dict"
  /\ gaAttempts' = Append(gaAttempts, "bare")
  /\ IF LoadStateDictOk(gaModel)
       THEN /\ gaGenerator' = "stored"
            /\ gaLog' = gaLog \cup {"loaded_state_dict"}
            /\ gaPc' = "generate"
       ELSE /\ gaPc' = "load_checkpoint"
            /\ UNCHANGED <<gaGenerator, gaLog>>
  /\ UNCHANGED <<fsVars, trainVars, gvVars, gaModel, gaExit, gaImages>>

\* GaLoadCheckpoint that prints the error and goes on to generate ("pass" for sys.exit)
GaLoadCheckpoint_Swallow ==
  /\ gaPc = "load_checkpoint"
  /\ gaAttempts' = Append(gaAttempts, "structured")
  /\ IF LoadFromCheckpointOk(gaModel)
       THEN /\ gaGenerator' = "stored"
            /\ gaLog' = gaLog \cup {"loaded_from_checkpoint"}
       ELSE /\ gaLog' = gaLog \cup {"error_loading_model"}
            /\ UNCHANGED gaGenerator
  /\ gaPc' = "generate"
  /\ UNCHANGED <<fsVars, trainVars, gvVars, gaModel, gaExit, gaImages>>

\* "try: checkpoint = torch.load(...); load_state_dict(checkpoint[...])
\*  except Exception as e: print(Error loading model); sys.exit(1)"
GaLoadCheckpoint ==
  /\ gaPc = "load_checkpoint"
  /\ gaAttempts' = Append(gaAttempts, "structured")
  /\ IF LoadFromCheckpointOk(gaModel)
       THEN /\ gaGenerator' = "stored"
            /\ gaLog' = gaLog \cup {"loaded_from_checkpoint"}
            /\ gaPc' = "generate"
            /\ UNCHANGED gaExit
       ELSE /\ gaLog' = gaLog \cup {"error_loading_model"}
            /\ gaExit' = 1
            /\ gaPc' = "exited"
            /\ UNCHANGED gaGenerator
  /\ UNCHANGED <<fsVars, trainVars, gvVars, gaModel, gaImages>>

\* the generation phase: output directory, per-style grids, "Generation complete!"
GaGenerate ==
  /\ gaPc = "generate"
  /\ gaImages' = TRUE
  /\ gaLog' = gaLog \cup {"generation_complete"}
  /\ gaExit' = 0
  /\ gaPc' = "done"
  /\ UNCHANGED <<fsVars, trainVars, gvVars, gaModel, gaGenerator, gaAttempts>>

\* --------------------------------- the generate_variations process: main()
\* An option string is the sequence of its words and separators after "--".
OptStyle == <<"style">>
OptVariationType == <<"variation", "_", "type">>
OptSeed == <<"seed">>
OptOutputDir == <<"output", "_", "dir">>
OptNumVariations == <<"num", "_", "variations">>
OptHelp == <<"help">>
ParserOptions ==
  {OptStyle, OptVariationType, OptSeed, OptOutputDir, OptNumVariations, OptHelp}

\* the option strings POST /generate writes
ApiVariation == <<"variation">>
ApiOutputDir == <<"output", "-", "dir">>
ApiNumVariations == <<"num", "-", "variations">>
ApiNoDb == <<"no", "-", "db">>

IsPrefix(a, b) == Len(a) <= Len(b) /\ \A i \in 1..Len(a) : a[i] = b[i]

\* argparse: an option string stands for the parser option it equals, or
\* else for the parser options it abbreviates
OptionMatches(o) ==
  IF o \in ParserOptions THEN {o} ELSE {p \in ParserOptions : IsPrefix(o, p)}

\* parse_args() accepts a command line when every option string stands for
\* exactly one parser option and the required --style is given
ParseOk(cmd) ==
  /\ \A i \in 1..Len(cmd.opts) : Cardinality(OptionMatches(cmd.opts[i])) = 1
  /\ \E i \in 1..Len(cmd.opts) : OptionMatches(cmd.opts[i]) = {OptStyle}

SeedOpt(seed) == IF seed.given THEN <<OptSeed>> ELSE <<>>

\* a command line typed with the parser's own option names
CliCmd(style, n, seed) ==
  [opts |-> <<OptStyle, OptVariationType, OptOutputDir, OptNumVariations>> \o SeedOpt(seed),
   style |-> style, num_variations |-> n, seed |-> seed, output_dir |-> "art_variations"]

\* the command line POST /generate builds from a request
ApiCmd(req) ==
  [opts |-> <<OptStyle, ApiVariation, ApiOutputDir, ApiNumVariations, ApiNoDb>>
              \o SeedOpt(req.seed),
   style |-> req.style, num_variations |-> req.num_variations, seed |-> req.seed,
   output_dir |-> "generated_api"]

StyleArgs == {MinStyle - 1, MinStyle, MaxStyle, MaxStyle + 1}
SeedArgs == {NoSeed, [given |-> TRUE, value |-> 7]}

\* "if args.style < 0 or args.style > 14" is the rejection
StyleValid_UpTo15(style) == ~(style < MinStyle \/ style > MaxStyle + 1)

StyleValid(style) == ~(style < MinStyle \/ style > MaxStyle)

SeedFor_Same(seed, i) == seed

\* "args.seed + i if args.seed is not None else None"
SeedFor(seed, i) == IF seed.given THEN [seed EXCEPT !.value = seed.value + i] ELSE seed

InfoLine == [kind |-> "info", name |-> 0]
PathLine(name) == [kind |-> "path", name |-> name]

\* The file name carries the time of the save in milliseconds; successive
\* saves of one run are more than a millisecond apart, so the name of the
\* save of variation i is identified with its rank i + 1.
FileName(i) == i + 1

\* stdout lines ending in '.png'
PngLines(lines) == SelectSeq(lines, LAMBDA l : l.kind = "path")

GvLaunch(caller, cmd) ==
  /\ gvPc' = "parse" /\ gvCaller' = caller /\ gvCmd' = cmd /\ gvArgs' = NoGvArgs
  /\ gvI' = 0 /\ gvSeeds' = <<>> /\ gvStdout' = <<>> /\ gvStderr' = "none"
  /\ gvSaved' = {} /\ gvMappingReads' = 0 /\ gvExit' = -1

\* the script run from a shell
StartVariations ==
  /\ AtRest
  /\ \E style \in StyleArgs, n \in 0..MaxVariations, seed \in SeedArgs :
       GvLaunch("cli", CliCmd(style, n, seed))
  /\ bePc' = "idle" /\ beReq' = NoReq /\ beResponse' = NoResponse
  /\ TrainReset
  /\ GaReset
  /\ UNCHANGED <<fsVars, runNo, gvOutDir>>

GvUnchanged == UNCHANGED <<fsVars, trainVars, gaVars, gvCaller, gvCmd, bePc, beReq, beResponse>>

\* parser.parse_args(): an error ends the process with status 2
GvParse ==
  /\ gvPc = "parse"
  /\ IF ParseOk(gvCmd)
       THEN /\ gvArgs' = [style |-> gvCmd.style, num_variations |-> gvCmd.num_variations,
                          seed |-> gvCmd.seed, output_dir |-> gvCmd.output_dir]
            /\ gvPc' = "validate"
            /\ UNCHANGED <<gvStderr, gvExit>>
       ELSE /\ gvStderr' = "usage" /\ gvExit' = 2 /\ gvPc' = "exited"
            /\ UNCHANGED gvArgs
  /\ UNCHANGED <<gvI, gvSeeds, gvStdout, gvSaved, gvOutDir, gvMappingReads>>
  /\ GvUnchanged

\* the style id check
GvValidate ==
  /\ gvPc = "validate"
  /\ IF StyleValid(gvArgs.style)
       THEN gvPc' = "makedirs" /\ UNCHANGED <<gvStdout, gvExit>>
       ELSE /\ gvStdout' = Append(gvStdout, InfoLine)
            /\ gvExit' = 1 /\ gvPc' = "exited"
  /\ UNCHANGED <<gvArgs, gvI, gvSeeds, gvStderr, gvSaved, gvOutDir, gvMappingReads>>
  /\ GvUnchanged

\* os.makedirs(args.output_dir, exist_ok=True) and the three announcements
GvMakeDirs ==
  /\ gvPc = "makedirs"
  /\ gvOutDir' = [gvOutDir EXCEPT ![gvArgs.output_dir] = TRUE]
  /\ gvStdout' = gvStdout \o <<InfoLine, InfoLine, InfoLine>>
  /\ gvPc' = "loop"
  /\ UNCHANGED <<gvArgs, gvI, gvSeeds, gvStderr, gvSaved, gvMappingReads, gvExit>>
  /\ GvUnchanged

\* One pass of "for i in range(args.num_variations)": generate_style_variation
\* seeds the generators, reads the cluster mapping (load_cluster_mapping ends
\* the process with sys.exit(1) when the file is missing, which "except
\* Exception" does not catch), builds the image, then main saves it and
\* prints its path; an exception raised on the way is reported on stderr and
\* ends the process with status 1.
GvVariation ==
  /\ gvPc = "loop"
  /\ gvI < gvArgs.num_variations
  /\ gvSeeds' = Append(gvSeeds, SeedFor(gvArgs.seed, gvI))
  /\ gvMappingReads' = gvMappingReads + 1
  /\ IF mappingFile = "absent"
       THEN /\ gvStdout' = gvStdout \o <<InfoLine, InfoLine, InfoLine>>
            /\ gvExit' = 1 /\ gvPc' = "exited"
            /\ UNCHANGED <<gvI, gvSaved, gvStderr>>
       ELSE \E raised \in BOOLEAN :
              IF raised
                THEN /\ gvStderr' = "error_creating_variation"
                     /\ gvExit' = 1 /\ gvPc' = "exited"
                     /\ UNCHANGED <<gvI, gvSaved, gvStdout>>
                ELSE /\ gvSaved' = gvSaved \cup {FileName(gvI)}
                     /\ gvStdout' = Append(gvStdout, PathLine(FileName(gvI)))
                     /\ gvI' = gvI + 1
                     /\ UNCHANGED <<gvPc, gvExit, gvStderr>>
  /\ UNCHANGED <<gvArgs, gvOutDir>>
  /\ GvUnchanged

\* the loop is exhausted: main returns
GvFinish ==
  /\ gvPc = "loop"
  /\ gvI >= gvArgs.num_variations
  /\ gvPc' = "done" /\ gvExit' = 0
  /\ UNCHANGED <<gvArgs, gvI, gvSeeds, gvStdout, gvStderr, gvSaved, gvOutDir, gvMappingReads>>
  /\ GvUnchanged

\* ------------------------------------------------ backend: POST /generate
ApiStyles == {MinStyle, MaxStyle}

\* generate_art(req) up to subprocess.run: the output directory is made and
\* the script is started with the command line built from the request
BeRequest ==
  /\ AtRest
  /\ \E style \in ApiStyles, n \in 1..MaxVariations, seed \in SeedArgs :
       LET req == [style |-> style, num_variations |-> n, seed |-> seed]
       IN  /\ beReq' = req
           /\ GvLaunch("api", ApiCmd(req))
  /\ bePc' = "running" /\ beResponse' = NoResponse
  /\ gvOutDir' = [gvOutDir EXCEPT !["generated_api"] = TRUE]
  /\ TrainReset
  /\ GaReset
  /\ UNCHANGED <<fsVars, runNo>>

\* subprocess.run(..., check=True) has returned: the '.png' lines of stdout
\* are the answer, a non-zero status raises CalledProcessError, answered
\* with status 500 and "e.stderr or str(e)"
BeRespond ==
  /\ bePc = "running"
  /\ gvPc \in {"done", "exited"}
  /\ beResponse' =
       IF gvExit = 0
         THEN [status |-> 200, images |-> PngLines(gvStdout), error |-> "none"]
         ELSE [status |-> 500, images |-> <<>>,
               error |-> IF gvStderr # "none" THEN gvStderr ELSE "called_process_error"]
  /\ bePc' = "responded"
  /\ UNCHANGED <<fsVars, trainVars, gaVars, gvPc, gvCaller, gvCmd, gvArgs, gvI, gvSeeds,
                 gvStdout, gvStderr, gvSaved, gvOutDir, gvMappingReads, gvExit, beReq>>

\* --------------------------------------------------------- specification
Next ==
  \/ StartTrain
  \/ CheckDataDir
  \/ HandleClusterMapping
  \/ CreateDataLoader
  \/ AnalyzeClusters
  \/ ClearSaveDir
  \/ InitTrainer
  \/ ResumeFromCheckpoint
  \/ SaveConfig
  \/ TrainEpoch
  \/ TrainComplete
  \/ StartArt
  \/ GaLoadStateDict
  \/ GaLoadCheckpoint
  \/ GaGenerate

Spec == Init /\ [][Next]_vars

\* Training runs over the dataset listings, devices and style counts, from a
\* file system without leftover checkpoints in the save directory.
InitSetup ==
  /\ dataDirExists \in BOOLEAN
  /\ dataFiles \in (IF dataDirExists THEN Listings ELSE {{}})
  /\ mappingFile \in {"absent", "real"}
  /\ mappingContent = (IF mappingFile = "real" THEN RealMapping(dataFiles) ELSE <<>>)
  /\ statsFile \in {NoStats, [present |-> TRUE, counts |-> <<10, 10, 100>>]}
  /\ saveDirExists \in BOOLEAN
  /\ sdCkpt = NoCkpt
  /\ sdConfig \in (IF saveDirExists THEN {NoConfig, [NoConfig EXCEPT !.present = TRUE]}
                                    ELSE {NoConfig})
  /\ extCkpt \in {NoCkpt, [kind |-> "valid", epoch |-> MaxCkptEpoch, run |-> 0]}
  /\ runNo = 0
  /\ TrainIdle
  /\ GaIdle
  /\ GvIdle /\ gvOutDir = NoOutDirs

NextSetup ==
  \/ StartTrainSetup
  \/ CheckDataDir
  \/ HandleClusterMapping
  \/ CreateDataLoader
  \/ AnalyzeClusters
  \/ ClearSaveDir
  \/ InitTrainer
  \/ ResumeFromCheckpoint
  \/ SaveConfig
  \/ TrainEpoch
  \/ TrainComplete

SpecSetup == InitSetup /\ [][NextSetup]_vars

\* The variation script, from a shell and behind POST /generate, over a file
\* system with the dataset in place and the cluster mapping present or not.
InitVariations ==
  /\ dataDirExists = TRUE
  /\ dataFiles = DefaultListing
  /\ mappingFile \in {"absent", "real"}
  /\ mappingContent = (IF mappingFile = "real" THEN RealMapping(dataFiles) ELSE <<>>)
  /\ statsFile = NoStats
  /\ saveDirExists = FALSE
  /\ sdCkpt = NoCkpt
  /\ sdConfig = NoConfig
  /\ extCkpt = NoCkpt
  /\ runNo = 0
  /\ TrainIdle
  /\ GaIdle
  /\ GvIdle /\ gvOutDir = NoOutDirs

NextVariations ==
  \/ StartVariations
  \/ BeRequest
  \/ GvParse
  \/ GvValidate
  \/ GvMakeDirs
  \/ GvVariation
  \/ GvFinish
  \/ BeRespond

SpecVariations == InitVariations /\ [][NextVariations]_vars

\* ================================================================ claims

\* C1 (as claimed): a --resume checkpoint that exists when the run starts is
\* always loaded before training, or the run ends with an error; training
\* never begins with fresh weights.
C1_ExistingResumeIsLoaded ==
  (resumeExistedAtStart /\ pc = "train" /\ epochsRun = <<>>) =>
     (trainer.weights = "loaded" /\ "resumed" \in log)

\* C2 (as claimed): after a successful resume from a checkpoint recording
\* epoch e, every epoch the training loop runs lies strictly after e, and
\* the first one is e + 1.
C2_ResumeStartsAfterCheckpoint ==
  ("resumed" \in log /\ epochsRun # <<>>) =>
     /\ epochsRun[1] = start_epoch + 1
     /\ \A i \in DOMAIN epochsRun : epochsRun[i] > start_epoch

\* C3: when --resume is given and no file exists at that path when main()
\* looks, the step prints the warning, keeps the fresh trainer, leaves
\* start_epoch = 0 and no exit status, and goes on to write the config
\* record; a run that printed the warning and reached training has
\* start_epoch = 0 in its own config record.
C3_MissingStep ==
  (pc = "resume" /\ args.resume # "none" /\ ~ResumeExists(args.resume)) =>
     /\ pc' = "config"
     /\ "warning_checkpoint_not_found" \in log'
     /\ trainer' = trainer /\ trainer.weights = "fresh"
     /\ start_epoch' = 0
     /\ exitStatus' = -1
C3_MissingRecorded ==
  ("warning_checkpoint_not_found" \in log /\ pc \in {"train", "done"}) =>
     /\ sdConfig.present /\ sdConfig.run = runNo /\ sdConfig.start_epoch = 0
     /\ start_epoch = 0
     /\ "resumed" \notin log
     /\ (epochsRun # <<>> => epochsRun[1] = 0)
C3_MissingCheckpointStartsFresh == [][C3_MissingStep]_vars /\ []C3_MissingRecorded

C3_Witness ==
  /\ pc = "train" /\ epochsRun = <<>>
  /\ args.resume = "outside" /\ extCkpt.kind = "absent"
  /\ "warning_checkpoint_not_found" \in log
  /\ trainer.weights = "fresh"
  /\ sdConfig.present /\ sdConfig.run = runNo /\ sdConfig.start_epoch = 0

\* C4 (as claimed): when the run aborts on a malformed resume checkpoint, no
\* trainer has been constructed, the save directory has not been cleared and
\* no config record has been written.
C4_AbortBeforeTrainingState ==
  (pc = "crashed") =>
     /\ ~trainer.built
     /\ "clearing_training_dir" \notin log
     /\ "config_saved" \notin log

\* C5: with the dataset directory missing, the run ends at once with the
\* error message and exit status 1, with no data loader and no trainer, and
\* no step of such a run changes anything on disk.
C5_AfterCheck ==
  (~dataDirExists /\ pc \notin {"idle", "check_data"}) =>
     /\ pc = "exited" /\ exitStatus = 1
     /\ log = {"error_dataset_not_found"}
     /\ ~loaderCreated /\ ~trainer.built /\ epochsRun = <<>>
     /\ mappingFile # "mock"
     /\ sdConfig.run = 0 /\ sdCkpt.run = 0
C5_NoDiskEffect == ~dataDirExists => UNCHANGED fsVars
C5_MissingDatasetExits == []C5_AfterCheck /\ [][C5_NoDiskEffect]_vars

C5_Witness ==
  /\ pc = "exited" /\ exitStatus = 1 /\ ~dataDirExists
  /\ "error_dataset_not_found" \in log
  /\ mappingFile = "absent" /\ saveDirExists


\* C6: a failure during setup is fatal and reported. When the construction
\* of the data loader raised, the training run has printed the error and
\* exited with status 1 without a trainer and without training; when the
\* model file can be loaded in neither form, generate_art has printed the
\* error and exited with status 1 without generating an image.
C6_SetupFailureIsFatal ==
  /\ (dataDirExists /\ ~loaderCreated /\ pc \notin {"idle", "check_data", "mapping", "loader"}) =>
        /\ pc = "exited" /\ exitStatus = 1
        /\ "error_creating_data_loader" \in log
        /\ ~trainer.built /\ epochsRun = <<>>
        /\ "initializing_trainer" \notin log
  /\ (gaModel \in {"missing", "garbage"} /\ gaPc \notin {"idle", "load_state_dict", "load_checkpoint"}) =>
        /\ gaPc = "exited" /\ gaExit = 1
        /\ "error_loading_model" \in gaLog
        /\ ~gaImages /\ gaGenerator = "initial"

C6_Witness ==
  /\ pc = "exited" /\ exitStatus = 1 /\ dataDirExists /\ ~loaderCreated
  /\ "error_creating_data_loader" \in log
  /\ ~trainer.built

\* C7: a save directory that existed is removed before the trainer is
\* constructed; while the trainer exists the save directory holds no file of
\* an earlier run, and when trainer.train is called it holds exactly the
\* config record of the current run.
C7_SaveDirClearedBeforeTrainer ==
  /\ (pc = "init_trainer" => (~saveDirExists /\ sdCkpt = NoCkpt /\ sdConfig = NoConfig))
  /\ trainer.built =>
        /\ (sdCkpt.kind # "absent" => sdCkpt.run = runNo)
        /\ (sdConfig.present => sdConfig.run = runNo)
  /\ (pc = "train" /\ epochsRun = <<>>) =>
        /\ saveDirExists /\ sdCkpt = NoCkpt
        /\ sdConfig.present /\ sdConfig.run = runNo

C7_Witness ==
  /\ pc = "train" /\ epochsRun = <<>>
  /\ "clearing_training_dir" \in log
  /\ sdCkpt = NoCkpt /\ sdConfig.run = runNo

\* C8: the lambda_style handed to the trainer is 1.5 times the command-line
\* value exactly when some count of the statistics file exceeds 5 times
\* another (max/min > 5), and the command-line value itself otherwise, also
\* at a ratio of exactly 5 and without a statistics file; counts
\* {10, 10, 100} give the ratio 10 and {50, 50, 50} give the ratio 1.
C8_ExpectImbalanced ==
  /\ statsFile.present
  /\ \E i \in DOMAIN statsFile.counts : \E j \in DOMAIN statsFile.counts :
        statsFile.counts[i] > 5 * statsFile.counts[j]
C8_LambdaScaledOnceAboveFive ==
  trainer.built =>
     /\ (C8_ExpectImbalanced => 2 * trainer.lambda_style = 3 * cmdLambda)
     /\ (~C8_ExpectImbalanced => trainer.lambda_style = cmdLambda)
     /\ (statsFile.counts = <<10, 10, 100>> => imbalance_ratio = [num |-> 100, den |-> 10])
     /\ (statsFile.counts = <<50, 50, 50>> =>
            (imbalance_ratio.num = imbalance_ratio.den /\ trainer.lambda_style = cmdLambda))
     /\ (statsFile.counts = <<10, 50>> => trainer.lambda_style = cmdLambda)
     /\ ("increased_style_loss" \in log <=> trainer.lambda_style # cmdLambda)

C8_Witness ==
  /\ trainer.built /\ statsFile.counts = <<10, 10, 100>>
  /\ cmdLambda = 16 /\ trainer.lambda_style = 24
  /\ imbalance_ratio.num = 10 * imbalance_ratio.den

\* C9: without a statistics file the analysis step changes nothing but the
\* position of the run (no change of lambda_style, no message, no exit
\* status, nothing on disk), and the trainer then gets the command-line
\* lambda_style.
C9_SkipStep ==
  (pc = "analyze" /\ ~statsFile.present) =>
     /\ pc' = "clear"
     /\ UNCHANGED <<fsVars, gaVars, gvVars, device, dataset_size, configWrites,
                 runNo, args, cmdLambda, loaderCreated, imbalance_ratio,
                    trainer, start_epoch, log, exitStatus, epochsRun, resumeExistedAtStart>>
C9_SkipResult ==
  (trainer.built /\ ~statsFile.present) =>
     /\ trainer.lambda_style = cmdLambda
     /\ "error_creating_data_loader" \notin log
     /\ "increased_style_loss" \notin log
C9_AbsentStatsSkipped == [][C9_SkipStep]_vars /\ []C9_SkipResult

C9_Witness ==
  /\ pc = "resume" /\ trainer.built /\ ~statsFile.present
  /\ trainer.lambda_style = cmdLambda /\ cmdLambda = 16

\* C10 (as claimed): every run that trains on a synthesised cluster mapping
\* says so in its log (the config record of main() has no field that could).
C10_SyntheticMappingDistinguished ==
  (pc \in {"train", "done"} /\ mappingFile = "mock") =>
     "warning_mapping_not_found" \in log


\* C16: with a statistics file that has no style, or a style of count 0,
\* the imbalance ratio is undefined: the run never builds a trainer and never
\* trains, the analysis ends the run with the error message and exit status
\* 1, and no step of such a run touches the save directory.
C16_RatioUndefined ==
  /\ statsFile.present
  /\ \/ statsFile.counts = <<>>
     \/ \E i \in DOMAIN statsFile.counts : statsFile.counts[i] = 0
C16_NoTraining ==
  C16_RatioUndefined =>
     /\ ~trainer.built /\ epochsRun = <<>>
     /\ pc \notin {"clear", "init_trainer", "resume", "config", "train", "done", "crashed"}
     /\ "clearing_training_dir" \notin log
     /\ (loaderCreated /\ pc # "analyze") =>
           (pc = "exited" /\ exitStatus = 1 /\ "error_creating_data_loader" \in log)
C16_SaveDirUntouched == C16_RatioUndefined => UNCHANGED <<saveDirExists, sdCkpt, sdConfig>>
C16_UndefinedRatioExits == []C16_NoTraining /\ [][C16_SaveDirUntouched]_vars

C16_Witness ==
  /\ pc = "exited" /\ exitStatus = 1 /\ loaderCreated
  /\ statsFile.counts = <<0, 10>>
  /\ saveDirExists /\ sdCkpt.kind = "valid"
  /\ ~trainer.built


\* C13: generate_art loads either on-disk form without being told which. For
\* a bare generator-weights file and for a full checkpoint the generator ends
\* up with the stored weights, the run never exits with an error and a
\* finished run has generated; for a file in neither form the run prints the
\* error and exits with status 1 with the generator untouched and no image.
C13_LoadsEitherForm ==
  /\ (gaModel \in {"bare", "full"}) =>
        /\ gaPc \in {"load_state_dict", "load_checkpoint", "generate", "done"}
        /\ "error_loading_model" \notin gaLog
        /\ gaExit # 1
        /\ (gaPc \in {"generate", "done"} => gaGenerator = "stored")
  /\ (gaPc = "done") =>
        (gaImages /\ gaExit = 0 /\ gaGenerator = "stored" /\ gaModel \in {"bare", "full"})
  /\ (gaModel \in {"missing", "garbage"} /\ Len(gaAttempts) = 2) =>
        /\ gaPc = "exited" /\ gaExit = 1
        /\ "error_loading_model" \in gaLog
        /\ gaGenerator = "initial" /\ ~gaImages

C13_Witness ==
  /\ gaPc = "done" /\ gaModel = "full"
  /\ gaGenerator = "stored" /\ gaImages /\ gaExit = 0
  /\ "loaded_from_checkpoint" \in gaLog

\* C15 (as claimed): the first load attempt takes the file as a full
\* checkpoint, and the bare form is tried only after that attempt failed.
C15_StructuredFirst ==
  /\ (gaAttempts # <<>> => gaAttempts[1] = "structured")
  /\ \A i \in DOMAIN gaAttempts :
        gaAttempts[i] = "bare" => (i > 1 /\ gaAttempts[i - 1] = "structured")

\* C15 (amended): the first load attempt takes the file as a bare generator
\* state dict; the full-checkpoint form is attempted second, and only after
\* the bare attempt has failed; no run gets past loading without an attempt.
C15_BareFirst ==
  /\ gaAttempts \in {<<>>, <<"bare">>, <<"bare", "structured">>}
  /\ (Len(gaAttempts) = 2 => gaModel # "bare")
  /\ (gaPc \in {"generate", "done", "exited"} => gaAttempts # <<>>)
  /\ (gaModel = "bare" /\ gaPc \in {"generate", "done"} => gaAttempts = <<"bare">>)

C15_Witness ==
  /\ gaAttempts = <<"bare", "structured">>
  /\ gaModel = "full" /\ gaPc = "generate" /\ gaGenerator = "stored"


\* C11: when no mapping file exists, main() saves a mapping that gives a
\* style id in 0..num_styles-1 to every entry of the dataset directory whose
\* name ends in '.jpg' and to nothing else, and prints the warning; a mapping
\* file that exists is never changed by any step.
C11_SynthesisStep ==
  (pc = "mapping" /\ mappingFile = "absent") =>
     /\ mappingFile' = "mock"
     /\ DOMAIN mappingContent' = {f \in dataFiles : f[Len(f)] = ".jpg"}
     /\ \A f \in DOMAIN mappingContent' :
           mappingContent'[f] >= 0 /\ mappingContent'[f] < args.num_styles
     /\ "warning_mapping_not_found" \in log'
C11_NeverOverwritten ==
  mappingFile # "absent" => UNCHANGED <<mappingFile, mappingContent>>
C11_OnlyWhenAbsent ==
  mappingFile' # mappingFile =>
     (mappingFile = "absent" /\ pc = "mapping" /\ "warning_mapping_not_found" \in log')
C11_MockMappingWellFormed ==
  [][C11_SynthesisStep /\ C11_NeverOverwritten /\ C11_OnlyWhenAbsent]_vars

C11_Witness ==
  /\ mappingFile = "mock" /\ pc = "loader"
  /\ dataFiles = {FileA, FileD, FileE}
  /\ DOMAIN mappingContent = {FileA}
  /\ args.num_styles = 2 /\ mappingContent[FileA] = 1
  /\ "warning_mapping_not_found" \in log

\* C12: a run that has reached training has written training_config.json
\* exactly once, before the first epoch, and no run writes it earlier or
\* twice; the record holds the values the run uses: lambda_style, num_styles
\* and device as given to the trainer (lambda_style after the scaling, the
\* device resolved, never 'auto'), num_epochs as given to trainer.train,
\* start_epoch and the dataset size.
C12_ConfigRecordsResolvedValues ==
  /\ configWrites <= 1
  /\ (pc \notin {"train", "done"} => configWrites = 0)
  /\ (epochsRun # <<>> => configWrites = 1)
  /\ (pc \in {"train", "done"}) =>
        /\ configWrites = 1
        /\ sdConfig.present /\ sdConfig.run = runNo
        /\ sdConfig.lambda_style = trainer.lambda_style
        /\ (statsFile.present => 2 * sdConfig.lambda_style = 3 * cmdLambda)
        /\ (~statsFile.present => sdConfig.lambda_style = cmdLambda)
        /\ sdConfig.num_styles = trainer.num_styles
        /\ sdConfig.device = trainer.device
        /\ sdConfig.device \in {"cpu", "cuda"}
        /\ (args.device # "auto" => sdConfig.device = args.device)
        /\ sdConfig.num_epochs = args.num_epochs
        /\ sdConfig.start_epoch = start_epoch
        /\ sdConfig.dataset_size = dataset_size
        /\ sdConfig.dataset_size = Cardinality(DOMAIN mappingContent \cap dataFiles)

C12_Witness ==
  /\ pc = "train" /\ epochsRun = <<>> /\ configWrites = 1
  /\ args.device = "auto" /\ sdConfig.device = "cuda"
  /\ cmdLambda = 16 /\ sdConfig.lambda_style = 24
  /\ sdConfig.dataset_size = 2 /\ sdConfig.num_styles = 2

\* C17: generate_variations rejects every style id outside 0..14 with exit
\* status 1 before any side effect (the output directory is not created, the
\* cluster mapping is not read, no variation is generated), and every style
\* id in 0..14 passes the validation.
C17_ValidateStep ==
  gvPc = "validate" =>
     IF gvArgs.style \in MinStyle..MaxStyle
       THEN gvPc' = "makedirs"
       ELSE /\ gvPc' = "exited" /\ gvExit' = 1
            /\ gvOutDir' = gvOutDir /\ gvMappingReads' = 0
            /\ gvSaved' = {} /\ gvSeeds' = <<>>

C17_Rejected ==
  (gvCaller # "none" /\ ParseOk(gvCmd) /\ gvPc \notin {"parse", "validate"}) =>
     IF gvCmd.style \in MinStyle..MaxStyle
       THEN gvPc = "exited" => gvMappingReads > 0
       ELSE /\ gvPc = "exited" /\ gvExit = 1
            /\ gvMappingReads = 0 /\ gvSaved = {} /\ gvSeeds = <<>>
            /\ PngLines(gvStdout) = <<>>

C17_InvalidStyleRejected == [][C17_ValidateStep]_vars /\ []C17_Rejected

C17_Witness ==
  /\ gvPc = "exited" /\ gvExit = 1 /\ gvCaller = "cli"
  /\ gvArgs.style = MaxStyle + 1
  /\ gvOutDir["art_variations"] = FALSE

\* C18: with num_variations = n the variations are produced in the order
\* i = 0..n-1, variation i seeded with seed + i when a seed is given; one
\* output path is printed per variation saved; the first failure ends the
\* run with status 1 and no later variation is attempted; status 0 means
\* exactly n paths were printed, and a non-zero status after k successes
\* leaves exactly those k files saved and printed.
C18_VariationsInOrder ==
  LET printed == PngLines(gvStdout)
      k == Len(printed)
      n == gvArgs.num_variations
  IN  (gvPc \in {"loop", "done", "exited"} /\ gvExit # 2) =>
        /\ \A j \in DOMAIN gvSeeds :
             gvSeeds[j] = IF gvArgs.seed.given
                            THEN [given |-> TRUE, value |-> gvArgs.seed.value + (j - 1)]
                            ELSE NoSeed
        /\ \A j \in 1..k : printed[j] = PathLine(FileName(j - 1))
        /\ gvSaved = {printed[j].name : j \in 1..k}
        /\ Cardinality(gvSaved) = k
        /\ Len(gvSeeds) <= n
        /\ gvPc = "loop" => (Len(gvSeeds) = k /\ gvI = k)
        /\ gvExit = 0 => (gvPc = "done" /\ k = n /\ Len(gvSeeds) = n)
        /\ (gvExit = 1 /\ gvMappingReads > 0) => (Len(gvSeeds) = k + 1 /\ k < n)

C18_Witness ==
  /\ gvPc = "exited" /\ gvExit = 1
  /\ gvArgs.num_variations = 2 /\ gvArgs.seed.given
  /\ Len(PngLines(gvStdout)) = 1 /\ gvSaved = {FileName(0)}
  /\ Len(gvSeeds) = 2

\* C14 (as claimed): the command line POST /generate builds is accepted by
\* the argument parser of generate_variations; a request whose script run
\* succeeds is answered with the n '.png' paths, and a failing run with
\* status 500 and an error text.
C14_GenerateReturnsImages ==
  bePc = "responded" =>
     /\ ParseOk(gvCmd)
     /\ gvExit # 2
     /\ gvExit = 0 => (beResponse.status = 200
                       /\ Len(beResponse.images) = beReq.num_variations)
     /\ gvExit # 0 => (beResponse.status = 500 /\ beResponse.error # "none")

====
